---- MODULE Spec2Model ----
(***************************************************************************)
(* Model of the streaming segmentation + deduplicating persistence         *)
(* pipeline: loader.read_segments / loader.writefn, tokens.main_fn and the *)
(* LevelDB wrapper of db.py.                                               *)
(*                                                                         *)
(* A str is a sequence of Unicode code points, a bytes object a sequence   *)
(* of integers 0..255.  Files hold bytes; the store holds (key, value)     *)
(* pairs of bytes.                                                         *)
(***************************************************************************)
EXTENDS Integers, Sequences, FiniteSets, TLC

\* Python's None, for values that are otherwise sequences
None == <<>>
Some(v) == <<v>>

\* a file of the file system: exists is FALSE when no file has that path
NoFile == [exists |-> FALSE, data |-> <<>>]
File(d) == [exists |-> TRUE, data |-> d]

(***************************************************************************)
(* str / bytes primitives of the Python runtime used by the code           *)
(***************************************************************************)

\* '\n'
NL == 10
\* ','
COMMA == 44
\* ' '
SPACE == 32

\* the characters str.strip() / bytes.strip() remove (ASCII whitespace)
IsSpace(c) == c \in {9, 10, 11, 12, 13, 32}

\* lone surrogates cannot be encoded as UTF-8
IsSurrogate(c) == c \in 55296..57343

\* str.encode('utf-8') succeeds
Encodable(s) == \A i \in 1..Len(s) : ~IsSurrogate(s[i])

EncodeChar(c) ==
    IF c < 128 THEN <<c>>
    ELSE IF c < 2048 THEN <<192 + (c \div 64), 128 + (c % 64)>>
    ELSE IF c < 65536
         THEN <<224 + (c \div 4096), 128 + ((c \div 64) % 64), 128 + (c % 64)>>
    ELSE <<240 + (c \div 262144), 128 + ((c \div 4096) % 64),
           128 + ((c \div 64) % 64), 128 + (c % 64)>>

\* str.encode('utf-8') of an encodable str
RECURSIVE Encode(_)
Encode(s) == IF s = <<>> THEN <<>> ELSE EncodeChar(Head(s)) \o Encode(Tail(s))

\* number of bytes of the UTF-8 sequence a lead byte starts (0: invalid lead)
LeadLen(b) ==
    IF b < 128 THEN 1
    ELSE IF b \in 194..223 THEN 2
    ELSE IF b \in 224..239 THEN 3
    ELSE IF b \in 240..244 THEN 4
    ELSE 0

IsCont(b) == b \in 128..191

\* bytes.decode('utf-8') succeeds
RECURSIVE Decodable(_)
Decodable(b) ==
    IF b = <<>> THEN TRUE
    ELSE LET n == LeadLen(b[1]) IN
         /\ n > 0
         /\ Len(b) >= n
         /\ \A i \in 2..n : IsCont(b[i])
         /\ Decodable(SubSeq(b, n + 1, Len(b)))

DecodeChar(b, n) ==
    IF n = 1 THEN b[1]
    ELSE IF n = 2 THEN (b[1] - 192) * 64 + (b[2] - 128)
    ELSE IF n = 3 THEN (b[1] - 224) * 4096 + (b[2] - 128) * 64 + (b[3] - 128)
    ELSE (b[1] - 240) * 262144 + (b[2] - 128) * 4096 + (b[3] - 128) * 64 + (b[4] - 128)

\* bytes.decode('utf-8') of decodable bytes
RECURSIVE Decode(_)
Decode(b) ==
    IF b = <<>> THEN <<>>
    ELSE LET n == LeadLen(b[1]) IN
         <<DecodeChar(b, n)>> \o Decode(SubSeq(b, n + 1, Len(b)))

RECURSIVE LStrip(_)
LStrip(s) == IF s # <<>> /\ IsSpace(Head(s)) THEN LStrip(Tail(s)) ELSE s

RECURSIVE RStrip(_)
RStrip(s) == IF s # <<>> /\ IsSpace(s[Len(s)])
             THEN RStrip(SubSeq(s, 1, Len(s) - 1)) ELSE s

\* str.strip() / bytes.strip()
Strip(s) == RStrip(LStrip(s))

\* index of the first occurrence of c in s, 0 when absent
RECURSIVE FindFrom(_, _, _)
FindFrom(s, c, i) ==
    IF i > Len(s) THEN 0 ELSE IF s[i] = c THEN i ELSE FindFrom(s, c, i + 1)

\* file.readlines(): the lines of a text, each with its terminating '\n'
RECURSIVE ReadLines(_)
ReadLines(t) ==
    IF t = <<>> THEN <<>>
    ELSE LET i == FindFrom(t, NL, 1) IN
         IF i = 0 THEN <<t>>
         ELSE <<SubSeq(t, 1, i)>> \o ReadLines(SubSeq(t, i + 1, Len(t)))

\* str.split(c)
RECURSIVE SplitOn(_, _)
SplitOn(s, c) ==
    LET i == FindFrom(s, c, 1) IN
    IF i = 0 THEN <<s>>
    ELSE <<SubSeq(s, 1, i - 1)>> \o SplitOn(SubSeq(s, i + 1, Len(s)), c)

\* ' '.join(parts)
RECURSIVE Join(_)
Join(parts) ==
    IF parts = <<>> THEN <<>>
    ELSE IF Len(parts) = 1 THEN parts[1]
    ELSE parts[1] \o <<SPACE>> \o Join(Tail(parts))

\* concatenation of a sequence of sequences
RECURSIVE Flatten(_)
Flatten(ss) == IF ss = <<>> THEN <<>> ELSE Head(ss) \o Flatten(Tail(ss))

Range(f) == {f[i] : i \in DOMAIN f}

\* max(a, b)
Max(a, b) == IF a >= b THEN a ELSE b

(***************************************************************************)
(* The LevelDB store: a set of (key, value) pairs of bytes, one per key,   *)
(* iterated in byte-lexicographic key order.                               *)
(***************************************************************************)

Keys(s) == {e[1] : e \in s}

\* the entries of store s whose key is the encoding of str t
EntriesOf(s, t) == {e \in s : e[1] = Encode(t)}

\* db.put(k, v): insert or overwrite
Put(s, k, v) == {e \in s : e[1] # k} \cup {<<k, v>>}

\* db.delete(k)
Delete(s, k) == {e \in s : e[1] # k}

\* db.get(k)
Get(s, k) == IF k \in Keys(s) THEN Some((CHOOSE e \in s : e[1] = k)[2]) ELSE None

\* bytewise comparison of two keys
RECURSIVE BytesLess(_, _)
BytesLess(a, b) ==
    IF b = <<>> THEN FALSE
    ELSE IF a = <<>> THEN TRUE
    ELSE IF a[1] # b[1] THEN a[1] < b[1]
    ELSE BytesLess(Tail(a), Tail(b))

\* db.iterator(): the entries in key order
RECURSIVE Iterator(_)
Iterator(s) ==
    IF s = {} THEN <<>>
    ELSE LET m == CHOOSE e \in s : \A f \in s : f = e \/ BytesLess(e[1], f[1])
         IN <<m>> \o Iterator(s \ {m})

(***************************************************************************)
(* db.py: the methods of class LevelDB as functions of the store contents. *)
(* A result is a record; raised tells whether the call raised.             *)
(***************************************************************************)

\* 'Words', the header line of the dumps
Header == <<87, 111, 114, 100, 115>>

\* index of the first pair whose key or value str.encode rejects
RECURSIVE FirstBad(_, _)
FirstBad(words, i) ==
    IF i > Len(words) THEN i
    ELSE IF ~Encodable(words[i][1]) \/ ~Encodable(words[i][2]) THEN i
    ELSE FirstBad(words, i + 1)

\* the batch.put calls of add_batch's loop, in order
RECURSIVE PutAll(_, _)
PutAll(s, words) ==
    IF words = <<>> THEN s
    ELSE PutAll(Put(s, Encode(words[1][1]), Encode(words[1][2])), Tail(words))

\* what WriteBatch.__exit__ writes when the with-block raised after n - 1
\* puts: write_batch() is opened with transaction=False, so the puts made
\* before the exception are written
WriteBatchExit(s, words, n) == PutAll(s, SubSeq(words, 1, n - 1))

\* LevelDB.add_batch(words)
add_batch(s, words) ==
    LET n == FirstBad(words, 1) IN
    [db |-> WriteBatchExit(s, words, n), raised |-> n <= Len(words)]

\* check with the polarity its name suggests: True when the key is present
check_present(s, key) == Get(s, Encode(key)) # None

\* a check that never finds the key
check_always(s, key) == TRUE

\* a check that always finds the key
check_never(s, key) == FALSE

\* LevelDB.check(key): True when the key is ABSENT
check(s, key) == Get(s, Encode(key)) = None

\* a scan that adds up the key bytes only
RECURSIVE SizeLoop_keys(_, _, _)
SizeLoop_keys(it, db_size, db_length) ==
    IF it = <<>> THEN <<db_size, db_length>>
    ELSE SizeLoop_keys(Tail(it), db_size + Len(it[1][1]), db_length + 1)

\* LevelDB.find_size(): (db_size, db_length)
RECURSIVE SizeLoop(_, _, _)
SizeLoop(it, db_size, db_length) ==
    IF it = <<>> THEN <<db_size, db_length>>
    ELSE SizeLoop(Tail(it), db_size + Len(it[1][1]) + Len(it[1][2]), db_length + 1)

find_size(s) == SizeLoop(Iterator(s), 0, 0)

\* the line dump_to_txt writes for one entry
DumpLine(e, only_tokens) ==
    IF only_tokens THEN Decode(e[1]) \o <<NL>>
    ELSE Decode(e[1]) \o <<COMMA>> \o Decode(e[2]) \o <<NL>>

\* a dump that opens the file with mode 'w' and so drops its content
dump_to_txt_truncate(s, f, only_tokens) ==
    LET it == Iterator(s)
    IN File(Encode(Header \o <<NL>>)
            \o Flatten([i \in 1..Len(it) |-> Encode(DumpLine(it[i], only_tokens))]))

\* LevelDB.dump_to_txt(txt_file, only_tokens): the file content afterwards;
\* f is the file before; mode 'a' creates it when missing and appends
dump_to_txt(s, f, only_tokens) ==
    LET it == Iterator(s)
    IN File(f.data \o Encode(Header \o <<NL>>)
            \o Flatten([i \in 1..Len(it) |-> Encode(DumpLine(it[i], only_tokens))]))

\* a recovery loop that appends the word to the value already stored
RECURSIVE PutWords_append(_, _)
PutWords_append(s, ws) ==
    IF ws = <<>> THEN s
    ELSE LET k == Encode(ws[1])
             old == Get(s, k)
         IN PutWords_append(Put(s, k, IF old = None THEN k ELSE old[1] \o k),
                            Tail(ws))

\* the self.db.put(word, word) loop of the two recover methods
RECURSIVE PutWords(_, _)
PutWords(s, ws) ==
    IF ws = <<>> THEN s
    ELSE PutWords(Put(s, Encode(ws[1]), Encode(ws[1])), Tail(ws))

\* LevelDB.recover_db_from_txt(txt_file)
recover_db_from_txt(s, f) ==
    IF ~f.exists \/ ~Decodable(f.data) THEN [db |-> s, raised |-> TRUE]
    ELSE LET lines == ReadLines(Decode(f.data))
             ws    == [i \in 1..Len(lines) |-> Strip(lines[i])]
         IN [db |-> PutWords(s, ws), raised |-> FALSE]

\* csv.reader: the row of one line (no quoting in the modelled files);
\* an empty line gives the empty row
CsvRow(line) ==
    LET body == IF line # <<>> /\ line[Len(line)] = NL
                THEN SubSeq(line, 1, Len(line) - 1) ELSE line
    IN IF body = <<>> THEN <<>> ELSE SplitOn(body, COMMA)

\* LevelDB.recover_from_csv(csv_file)
recover_from_csv(s, f) ==
    IF ~f.exists \/ ~Decodable(f.data) THEN [db |-> s, raised |-> TRUE]
    ELSE LET lines == ReadLines(Decode(f.data))
             rows  == [i \in 1..Len(lines) |-> CsvRow(lines[i])]
             kept  == SelectSeq(rows, LAMBDA row : row # <<>>)
             ws    == [i \in 1..Len(kept) |-> Strip(kept[i][1])]
         IN [db |-> PutWords(s, ws), raised |-> FALSE]

\* URDU_ALL_CHARACTERS_UNICODE of ur_normalize
urdu_chars == 1536..1791

\* a helper that accepts a word as soon as one of its characters is Urdu
unicode_helper_any(word) == \E i \in 1..Len(word) : word[i] \in urdu_chars

\* LevelDB.unicode_helper(word)
unicode_helper(word) == \A i \in 1..Len(word) : word[i] \in urdu_chars

\* the self.db.delete loop of check_for_ur_unicode
RECURSIVE DeleteAll(_, _)
DeleteAll(s, ks) ==
    IF ks = {} THEN s
    ELSE LET k == CHOOSE x \in ks : TRUE IN DeleteAll(Delete(s, k), ks \ {k})

\* LevelDB.check_for_ur_unicode(if_remove)
check_for_ur_unicode(s, if_remove) ==
    LET it == Iterator(s)
        non_urdu_words == SelectSeq([i \in 1..Len(it) |-> Decode(it[i][1])],
                                    LAMBDA w : ~unicode_helper(w))
    IN [db  |-> IF non_urdu_words # <<>> /\ if_remove
                THEN DeleteAll(s, {Encode(w) : w \in Range(non_urdu_words)})
                ELSE s,
        ret |-> Len(non_urdu_words)]

\* a close that leaves the object open
close_noop(closed) == closed

\* LevelDB.close(): the value of db_closed afterwards
close(closed) == IF ~closed THEN TRUE ELSE closed

\* a close that calls self.db.close() every time
close_calls_db_always(closed) == TRUE

\* lines 93-95 of LevelDB.close(): whether self.db.close() is called
close_calls_db(closed) == ~closed

\* a destroy that deletes the data whether or not the store is held open
pl_destroy_db_unlocked(s, locked) == [db |-> {}, raised |-> FALSE]

\* pl.destroy_db(path): LevelDB takes the LOCK file of the directory before
\* it deletes anything; while a DB object holds the store open the lock is
\* taken, the call fails with an IOError and the data stay
pl_destroy_db(s, locked) ==
    [db |-> IF locked THEN s ELSE {}, raised |-> locked]

\* LevelDB.destroy_db(): calls pl.destroy_db(self._path), logs and re-raises
\* its Error; closed is self.db_closed, the object holds the store open
\* from __init__ until close()
destroy_db(s, closed) == pl_destroy_db(s, ~closed)

\* a backup loop that stops after the first entry
BackupLoop_first(dest, it) ==
    IF it = <<>> THEN [db |-> dest, raised |-> FALSE]
    ELSE add_batch(dest, <<<<Decode(Head(it)[1]), Decode(Head(it)[2])>>>>)

\* the loop of backup_db: one add_batch call per entry of the source
RECURSIVE BackupLoop(_, _)
BackupLoop(dest, it) ==
    IF it = <<>> THEN [db |-> dest, raised |-> FALSE]
    ELSE IF ~Decodable(Head(it)[1]) \/ ~Decodable(Head(it)[2])
    THEN [db |-> dest, raised |-> TRUE]
    ELSE LET r == add_batch(dest, <<<<Decode(Head(it)[1]), Decode(Head(it)[2])>>>>)
         IN IF r.raised THEN r ELSE BackupLoop(r.db, Tail(it))

\* LevelDB.backup_db(bdb_path): s is the source, dest the store at bdb_path;
\* LevelDB(bdb_path) fails with an IOError when an object holds that store
\* open (dest_locked)
backup_db(s, dest, dest_locked) ==
    IF dest_locked THEN [db |-> dest, raised |-> TRUE]
    ELSE BackupLoop(dest, Iterator(s))

(***************************************************************************)
(* hi_utils.py: HindiTokenizer                                             *)
(***************************************************************************)

\* unicodedata.category(char) == 'Lo', for the characters of the Devanagari
\* block (letters; not the vowel signs, digits or the danda)
CategoryLo(c) ==
    c \in (2308..2361) \cup {2365, 2384} \cup (2392..2401) \cup (2418..2431)

\* self._hi_unicode_range
hi_unicode_range == {<<2304, 2431>>}

\* HindiTokenizer.helper(word)
helper(word) ==
    \E i \in 1..Len(word) :
        /\ CategoryLo(word[i])
        /\ \E r \in hi_unicode_range : r[1] <= word[i] /\ word[i] <= r[2]

\* the token texts of the backend (self.spacy_tokenizer(text)): the maximal
\* runs of non-blank characters
spacy_tokenizer(text) == SelectSeq(SplitOn(text, SPACE), LAMBDA w : w # <<>>)

\* list(S): the lists that enumerate the set S, in any order
RECURSIVE Orderings(_)
Orderings(S) ==
    IF S = {} THEN {<<>>}
    ELSE UNION {{<<x>> \o o : o \in Orderings(S \ {x})} : x \in S}

\* HindiTokenizer._tokenize_with_spacy(text, is_unique): the possible
\* results (the order of list(set(tokens)) is not determined)
tokenize_with_spacy(text, is_unique) ==
    LET tokens == spacy_tokenizer(text)
        lists  == IF is_unique THEN Orderings(Range(tokens)) ELSE {tokens}
    IN {<<Len(tokens), Len(words), words>> : words \in lists}

\* HindiTokenizer.remove_non_hi_tokens on a token list
remove_non_hi_tokens(token_list) == SelectSeq(token_list, helper)

\* HindiTokenizer.tokenize(text, is_unique): the possible results
\* (num_tokens, len(token_list), token_list)
tokenize(text, is_unique) ==
    {LET token_list == remove_non_hi_tokens(r[3])
     IN <<r[1], Len(token_list), token_list>> :
        r \in tokenize_with_spacy(text, is_unique)}

(***************************************************************************)
(* hi_utils.py: HindiTextCleaner, and loader.py: writefn                   *)
(***************************************************************************)

\* the danda and the double danda
Danda == 2404
DoubleDanda == 2405

\* HindiTextCleaner.remove_punctuation: every character outside
\* U+0900..U+097F and every character of the punctuation class becomes ' '
remove_punctuation(text) ==
    [i \in 1..Len(text) |->
        IF text[i] \notin 2304..2431 \/ text[i] \in {Danda, DoubleDanda}
        THEN SPACE ELSE text[i]]

\* HindiTextCleaner.remove_numbers: the Devanagari digits are deleted (the
\* ASCII digits are blanks by now)
remove_numbers(text) == SelectSeq(text, LAMBDA c : c \notin 2406..2415)

\* re.sub(r'\s+', ' ', text)
RECURSIVE CollapseSpaces(_)
CollapseSpaces(text) ==
    IF text = <<>> THEN <<>>
    ELSE IF IsSpace(text[1])
    THEN <<SPACE>> \o CollapseSpaces(LStrip(text))
    ELSE <<text[1]>> \o CollapseSpaces(Tail(text))

\* HindiTextCleaner.remove_redundant_spaces
remove_redundant_spaces(text) == Strip(CollapseSpaces(text))

\* HindiTextCleaner(text).clean()
clean(text) == remove_redundant_spaces(remove_numbers(remove_punctuation(text)))

\* the appends of writefn's loop: one record per segment
RECURSIVE WriteRecords(_, _)
WriteRecords(data, segs) ==
    IF segs = <<>> THEN data
    ELSE WriteRecords(data \o Encode(clean(Head(segs)) \o <<NL>>), Tail(segs))

\* a writefn that opens the file with mode 'w' for every record
writefn_truncate(f, segs) ==
    [file   |-> IF segs = <<>> THEN f
                ELSE File(Encode(clean(segs[Len(segs)]) \o <<NL>>)),
     raised |-> segs = <<>>]

\* writefn(int_file_name, segments): the file afterwards; with no segment
\* the names start_time and end_time of line 103 are unbound and it raises
writefn(f, segs) ==
    [file   |-> IF segs = <<>> THEN f ELSE File(WriteRecords(f.data, segs)),
     raised |-> segs = <<>>]

(***************************************************************************)
(* Bounds and input data                                                   *)
(***************************************************************************)

\* number of LevelDB method calls in one behaviour of SpecStore
MaxOps == 3

\* the words 'din' and 'rat' in Devanagari (3 code points, 9 bytes each)
TokDin == <<2342, 2367, 2344>>
TokRat == <<2352, 2366, 2340>>
\* an ASCII word
TokAb == <<97, 98>>
\* a str holding a lone surrogate: str.encode('utf-8') raises on it
BadStr == <<55296>>

\* the tokens of the check-then-add cycles
CycleToks == {TokDin, TokAb}

SeqsUpTo(S, n) == UNION {[1..k -> S] : k \in 0..n}

\* the lists callers pass to add_batch: one token, two distinct tokens, a
\* pair whose value differs from its key, and a list whose second pair
\* cannot be encoded
Batches ==
    { <<<<TokRat, TokRat>>>>,
      <<<<TokDin, TokDin>>, <<TokAb, TokAb>>>>,
      <<<<TokAb, TokDin>>>>,
      <<<<TokRat, TokRat>>, <<BadStr, BadStr>>>> }

\* a text file with the given lines, each terminated by '\n'
RECURSIVE TextOf(_)
TextOf(lines) ==
    IF lines = <<>> THEN <<>> ELSE Head(lines) \o <<NL>> \o TextOf(Tail(lines))

\* recovery inputs: a missing file, a clean word list, a list with padded
\* and blank lines and no final newline, and a file that is not UTF-8
TxtFiles ==
    { NoFile,
      File(Encode(TextOf(<<TokDin, TokRat>>))),
      File(Encode(TextOf(<<<<SPACE>> \o TokDin \o <<SPACE>>, <<>>>>) \o TokAb)),
      File(<<255, 10>>) }

\* CSV recovery inputs: missing, the two-row file, and a file with a header
\* row, a two-field row, a row of blanks and an empty line
CsvFiles ==
    { NoFile,
      File(Encode(TextOf(<<TokDin, TokRat>>))),
      File(Encode(TextOf(<<Header, TokAb \o <<COMMA>> \o TokRat,
                           <<SPACE, SPACE>>, <<>>>>))) }

\* store contents at the start: what earlier runs of the pipeline left
InitStores == {PutWords({}, ws) : ws \in {<<>>, <<TokDin, TokRat>>}}

\* the LevelDB objects: the store at self._path and a newly created one
Inst == {"db", "bdb"}
\* the object the client writes, scans and dumps; both can be recovered into
Main == {"db"}

(***************************************************************************)
(* State                                                                   *)
(***************************************************************************)

VARIABLES
    stores,     \* stores[i]: the entries of LevelDB object i
    db_closed,  \* db_closed[i]: LevelDB.db_closed of object i
    txt_file,   \* the text file at txt_file / ofile_name
    csv_file,   \* the CSV file at csv_file
    hist,       \* the last two LevelDB method calls, most recent first
    nops        \* number of method calls made

\* main_fn(ifile_name, db, ofile_name) of tokens.py
VARIABLES
    ifile,             \* the file at ifile_name
    mf_pc,             \* where main_fn is
    mf_pos,            \* position of the mmap m (1-based index of the next byte)
    tokens,            \* the part of the list tokens the for loop has not reached
    unique_words,      \* the pending batch
    num_segments,
    num_total_tokens,  \* Unbound until line 35 has run
    temp,
    mf_exc,            \* the exception main_fn is raising ("none": none)
    add_calls,         \* the lists main_fn has passed to db.add_batch, in order
    mf_peak,           \* the largest len(unique_words) reached so far
    fin_calls,         \* the calls the finally block has made, in order
    db0                \* the entries of db when main_fn was called

\* read_segments(file_name, int_file) of loader.py
VARIABLES
    rs_file,          \* the file at file_name
    int_file,         \* the intermediate file
    int0,             \* the intermediate file before the first writefn call
    rs_pc,            \* where read_segments is
    rs_pos,           \* position of the mmap mfile
    mfile_bound,      \* the local name mfile has been assigned
    segments,         \* the pending batch of segments
    current_segment,  \* the open parts of the segment in progress
    rs_exc,           \* the exception read_segments is raising
    formed,           \* every segment appended to segments so far, in order
    handed,           \* every segment passed to writefn so far, in order
    rs_peak           \* the largest len(segments) reached so far

\* a HindiTokenizer object of hi_utils.py and the calls of its tokenize
VARIABLES
    token_list,       \* self.token_list
    tk_text,          \* the text of the last tokenize call
    tk_backend,       \* what the backend returned in that call
    tk_ret,           \* what that call returned
    tk_calls          \* the number of tokenize calls so far

\* generate_random_indices and extract_sentences of random_sampling.py
VARIABLES
    sm_pc,            \* where the sampling run is
    sm_in,            \* the file at file_path
    sm_out,           \* the file at out_file_path
    sm_out0,          \* that file when extract_sentences was called
    indices,          \* the list generate_random_indices returned
    line_number,      \* the enumerate counter of the loop over the lines
    current_index,
    extracted_count,
    eof_reached,
    sm_ret,           \* what extract_sentences returned
    sm_exc            \* the exception the run is raising

tokVars == <<token_list, tk_text, tk_backend, tk_ret, tk_calls>>

sampleVars == <<sm_pc, sm_in, sm_out, sm_out0, indices, line_number,
                current_index, extracted_count, eof_reached, sm_ret, sm_exc>>

toolVars == <<tokVars, sampleVars>>

\* no tokenize call has been made
TokIdle ==
    /\ token_list = <<>>
    /\ tk_text = <<>>
    /\ tk_backend = None
    /\ tk_ret = None
    /\ tk_calls = 0

\* the sampling functions have not been called
SampleIdle ==
    /\ sm_pc = "idle"
    /\ sm_in = NoFile
    /\ sm_out = NoFile
    /\ sm_out0 = NoFile
    /\ indices = <<>>
    /\ line_number = 0
    /\ current_index = 0
    /\ extracted_count = 0
    /\ eof_reached = FALSE
    /\ sm_ret = None
    /\ sm_exc = "none"

storeVars == <<stores, db_closed, txt_file, csv_file, hist, nops>>

loaderVars == <<rs_file, int_file, int0, rs_pc, rs_pos, mfile_bound, segments,
                current_segment, rs_exc, formed, handed, rs_peak>>

\* read_segments has not been called
LoaderIdle ==
    /\ rs_file = NoFile
    /\ int_file = NoFile
    /\ int0 = NoFile
    /\ rs_pc = "idle"
    /\ rs_pos = 1
    /\ mfile_bound = FALSE
    /\ segments = <<>>
    /\ current_segment = <<>>
    /\ rs_exc = "none"
    /\ formed = <<>>
    /\ handed = <<>>
    /\ rs_peak = 0

mainVars == <<ifile, mf_pc, mf_pos, tokens, unique_words, num_segments,
              num_total_tokens, temp, mf_exc, add_calls, mf_peak,
              fin_calls, db0>>

vars == <<storeVars, mainVars, loaderVars, toolVars>>

\* a local name that has not been assigned
Unbound == -1

\* main_fn has not been called
MainIdle ==
    /\ ifile = NoFile
    /\ mf_pc = "idle"
    /\ mf_pos = 1
    /\ tokens = <<>>
    /\ unique_words = <<>>
    /\ num_segments = 0
    /\ num_total_tokens = Unbound
    /\ temp = 0
    /\ mf_exc = "none"
    /\ add_calls = <<>>
    /\ mf_peak = 0
    /\ fin_calls = <<>>
    /\ db0 = {}

Call(op, i, arg, ret, raised) ==
    [op |-> op, inst |-> i, arg |-> arg, pre |-> stores[i], fpre |-> txt_file,
     closed |-> db_closed[i], ret |-> ret, raised |-> raised]

Push(c) == IF hist = <<>> THEN <<c>> ELSE <<c, hist[1]>>

Logged(c) == /\ hist' = Push(c)
             /\ nops' = nops + 1

(***************************************************************************)
(* SpecStore: a client calling the methods of LevelDB objects              *)
(***************************************************************************)

InitStore ==
    /\ stores \in {[i \in Inst |-> IF i = "db" THEN s ELSE {}] : s \in InitStores}
    /\ txt_file \in TxtFiles
    /\ csv_file \in CsvFiles
    /\ db_closed = [i \in Inst |-> FALSE]
    /\ hist = <<>>
    /\ nops = 0
    /\ MainIdle
    /\ LoaderIdle
    /\ TokIdle
    /\ SampleIdle

\* The client calls the methods that read or write the entries on an open
\* object only (~db_closed[i]); close() and destroy_db() are called at any
\* time.
AddBatch(i, words) ==
    /\ nops < MaxOps
    /\ ~db_closed[i]
    /\ LET r == add_batch(stores[i], words) IN
       /\ stores' = [stores EXCEPT ![i] = r.db]
       /\ Logged(Call("add_batch", i, words, None, r.raised))
    /\ UNCHANGED <<db_closed, txt_file, csv_file, mainVars, loaderVars,
                   toolVars>>

\* one cycle of main_fn's dedup: if db.check(token) then add_batch([(token, token)])
CheckThenAdd(i, token) ==
    /\ nops < MaxOps
    /\ ~db_closed[i]
    /\ LET absent == check(stores[i], token)
           r == add_batch(stores[i], <<<<token, token>>>>)
       IN /\ stores' = [stores EXCEPT ![i] = IF absent THEN r.db ELSE @]
          /\ Logged(Call("check_then_add", i, token, absent, absent /\ r.raised))
    /\ UNCHANGED <<db_closed, txt_file, csv_file, mainVars, loaderVars,
                   toolVars>>

FindSize(i) ==
    /\ nops < MaxOps
    /\ ~db_closed[i]
    /\ Logged(Call("find_size", i, None, find_size(stores[i]), FALSE))
    /\ UNCHANGED <<stores, db_closed, txt_file, csv_file, mainVars, loaderVars,
                   toolVars>>

DumpToTxt(i, only_tokens) ==
    /\ nops < MaxOps
    /\ ~db_closed[i]
    /\ txt_file' = dump_to_txt(stores[i], txt_file, only_tokens)
    /\ Logged(Call("dump_to_txt", i, only_tokens, None, FALSE))
    /\ UNCHANGED <<stores, db_closed, csv_file, mainVars, loaderVars,
                   toolVars>>

RecoverDbFromTxt(i) ==
    /\ nops < MaxOps
    /\ ~db_closed[i]
    /\ LET r == recover_db_from_txt(stores[i], txt_file) IN
       /\ stores' = [stores EXCEPT ![i] = r.db]
       /\ Logged(Call("recover_db_from_txt", i, txt_file, None, r.raised))
    /\ UNCHANGED <<db_closed, txt_file, csv_file, mainVars, loaderVars,
                   toolVars>>

RecoverFromCsv(i) ==
    /\ nops < MaxOps
    /\ ~db_closed[i]
    /\ LET r == recover_from_csv(stores[i], csv_file) IN
       /\ stores' = [stores EXCEPT ![i] = r.db]
       /\ Logged(Call("recover_from_csv", i, csv_file, None, r.raised))
    /\ UNCHANGED <<db_closed, txt_file, csv_file, mainVars, loaderVars,
                   toolVars>>

CheckForUrUnicode(i, if_remove) ==
    /\ nops < MaxOps
    /\ ~db_closed[i]
    /\ LET r == check_for_ur_unicode(stores[i], if_remove) IN
       /\ stores' = [stores EXCEPT ![i] = r.db]
       /\ Logged(Call("check_for_ur_unicode", i, if_remove, r.ret, FALSE))
    /\ UNCHANGED <<db_closed, txt_file, csv_file, mainVars, loaderVars,
                   toolVars>>

\* close() may be called at any time, also on a closed object
Close(i) ==
    /\ nops < MaxOps
    /\ db_closed' = [db_closed EXCEPT ![i] = close(@)]
    /\ Logged(Call("close", i, None, close_calls_db(db_closed[i]), FALSE))
    /\ UNCHANGED <<stores, txt_file, csv_file, mainVars, loaderVars,
                   toolVars>>

\* destroy_db() may be called at any time, before or after close()
DestroyDb(i) ==
    /\ nops < MaxOps
    /\ LET r == destroy_db(stores[i], db_closed[i]) IN
       /\ stores' = [stores EXCEPT ![i] = r.db]
       /\ Logged(Call("destroy_db", i, None, None, r.raised))
    /\ UNCHANGED <<db_closed, txt_file, csv_file, mainVars, loaderVars,
                   toolVars>>

\* backup_db(bdb_path) with the path of the store of object j
BackupDb(i, j) ==
    /\ nops < MaxOps
    /\ ~db_closed[i]
    /\ LET r == backup_db(stores[i], stores[j], ~db_closed[j]) IN
       /\ stores' = [stores EXCEPT ![j] = r.db]
       /\ Logged(Call("backup_db", i, [bdb_path |-> j, dest |-> stores[j]],
                      None, r.raised))
    /\ UNCHANGED <<db_closed, txt_file, csv_file, mainVars, loaderVars,
                   toolVars>>

NextStore ==
    \/ \E i \in Main, words \in Batches : AddBatch(i, words)
    \/ \E i \in Main, token \in CycleToks : CheckThenAdd(i, token)
    \/ \E i \in Main : FindSize(i)
    \/ \E i \in Main, only_tokens \in BOOLEAN : DumpToTxt(i, only_tokens)
    \/ \E i \in Inst : RecoverDbFromTxt(i)
    \/ \E i \in Inst : RecoverFromCsv(i)
    \/ \E i \in Main, if_remove \in BOOLEAN : CheckForUrUnicode(i, if_remove)
    \/ \E i \in Inst : Close(i)
    \/ \E i \in Main : DestroyDb(i)
    \/ \E i \in Main : BackupDb(i, "bdb")

SpecStore == InitStore /\ [][NextStore]_vars

(***************************************************************************)
(* SpecMain: one call main_fn(ifile_name, db, ofile_name) of tokens.py     *)
(***************************************************************************)

\* number of lines of the input file of main_fn
MaxLines == 2
\* batch_size of main_fn (100000 in the source, scaled down)
batch_size == 2
\* segment_limit of main_fn (100000 in the source, scaled down)
segment_limit == 2

\* a one-letter Devanagari word
TokNa == <<2344>>

\* the lines of the input files: two words, a repeated word with an ASCII
\* word, three words (more than one batch), a blank line, bytes that are
\* not UTF-8
MainLines ==
    { Encode(TokDin \o <<SPACE>> \o TokRat),
      Encode(TokRat \o <<SPACE>> \o TokAb \o <<SPACE>> \o TokRat),
      Encode(TokDin \o <<SPACE>> \o TokRat \o <<SPACE>> \o TokNa),
      <<SPACE>>,
      <<255>> }

\* the input files: missing, or up to MaxLines lines, the last one with or
\* without its newline
InputFiles ==
    {NoFile}
    \cup {File(TextOf(ls)) : ls \in SeqsUpTo(MainLines, MaxLines)}
    \cup {File(RStrip(TextOf(ls))) : ls \in SeqsUpTo(MainLines, MaxLines)}

MainStores == InitStores \cup {PutWords({}, <<TokRat>>)}

\* mmap.readline() at position pos: the bytes up to and including the next
\* newline, b"" at the end of the map
ReadLineAt(data, pos) ==
    IF pos > Len(data) THEN <<>>
    ELSE LET i == FindFrom(data, NL, pos)
         IN SubSeq(data, pos, IF i = 0 THEN Len(data) ELSE i)

\* the lines of a binary file, as mmap.readline delivers them
RECURSIVE LinesFrom(_, _)
LinesFrom(data, pos) ==
    LET line == ReadLineAt(data, pos)
    IN IF line = <<>> THEN <<>>
       ELSE <<line>> \o LinesFrom(data, pos + Len(line))

\* a flush test that lets the pending batch grow one past batch_size
FlushDue_late(uw) == Len(uw) > batch_size

\* line 56: the pending batch is full
FlushDue(uw) == Len(uw) >= batch_size

\* a segment end that never flushes
SegmentFlush_never(uw) == FALSE

\* line 60: a pending batch is left at the end of the segment
SegmentFlush(uw) == uw # <<>>

InitMain ==
    /\ \E s \in MainStores :
          /\ stores = [i \in Inst |-> IF i = "db" THEN s ELSE {}]
          /\ db0 = s
    /\ db_closed = [i \in Inst |-> FALSE]
    /\ txt_file = NoFile
    /\ csv_file = NoFile
    /\ hist = <<>>
    /\ nops = 0
    /\ ifile \in InputFiles
    /\ mf_pc = "start"
    /\ mf_pos = 1
    /\ tokens = <<>>
    /\ unique_words = <<>>
    /\ num_segments = 0
    /\ num_total_tokens = Unbound
    /\ temp = 0
    /\ mf_exc = "none"
    /\ add_calls = <<>>
    /\ mf_peak = 0
    /\ fin_calls = <<>>
    /\ LoaderIdle
    /\ TokIdle
    /\ SampleIdle

\* lines 32-36: open the input file and map it
MainOpen ==
    /\ mf_pc = "start"
    /\ IF ~ifile.exists
       THEN \* open raises; line 35 has not run
            /\ mf_exc' = "FileNotFoundError"
            /\ mf_pc' = "finally"
            /\ UNCHANGED num_total_tokens
       ELSE IF ifile.data = <<>>
       THEN \* mmap refuses an empty file
            /\ num_total_tokens' = 0
            /\ mf_exc' = "ValueError"
            /\ mf_pc' = "finally"
       ELSE /\ num_total_tokens' = 0
            /\ mf_pc' = "readline"
            /\ UNCHANGED mf_exc
    /\ UNCHANGED <<storeVars, ifile, mf_pos, tokens, unique_words, num_segments,
                   temp, add_calls, mf_peak, fin_calls, db0, loaderVars,
                   toolVars>>

\* lines 38-50: read the next line and tokenize it
MainReadLine ==
    /\ mf_pc = "readline"
    /\ LET line == ReadLineAt(ifile.data, mf_pos)
           segment == Strip(line)
       IN IF line = <<>>
          THEN /\ mf_pc' = "finally"
               /\ UNCHANGED <<mf_pos, tokens, unique_words, num_segments,
                              num_total_tokens, temp, mf_exc>>
          ELSE IF ~Decodable(segment)
          THEN /\ mf_pos' = mf_pos + Len(line)
               /\ mf_exc' = "UnicodeDecodeError"
               /\ mf_pc' = "finally"
               /\ UNCHANGED <<tokens, unique_words, num_segments,
                              num_total_tokens, temp>>
          ELSE \E r \in tokenize(Decode(segment), TRUE) :
               /\ mf_pos' = mf_pos + Len(line)
               /\ unique_words' = <<>>
               /\ tokens' = r[3]
               /\ num_segments' = num_segments + 1
               /\ num_total_tokens' = num_total_tokens + r[1]
               /\ temp' = IF (num_segments + 1) % segment_limit = 0
                          THEN 0 ELSE temp + r[1]
               /\ mf_pc' = "tokens"
               /\ UNCHANGED mf_exc
    /\ UNCHANGED <<storeVars, ifile, add_calls, mf_peak, fin_calls, db0, loaderVars,
                   toolVars>>

\* lines 52-58: one iteration of the loop over tokens
MainToken ==
    /\ mf_pc = "tokens"
    /\ tokens # <<>>
    /\ LET token == Head(tokens)
           uw == IF check(stores["db"], token)
                 THEN Append(unique_words, <<token, token>>)
                 ELSE unique_words
           r == add_batch(stores["db"], uw)
       IN /\ tokens' = Tail(tokens)
          /\ mf_peak' = Max(mf_peak, Len(uw))
          /\ IF FlushDue(uw)
             THEN /\ stores' = [stores EXCEPT !["db"] = r.db]
                  /\ add_calls' = Append(add_calls, uw)
                  /\ unique_words' = <<>>
                  /\ mf_exc' = IF r.raised THEN "UnicodeEncodeError" ELSE mf_exc
                  /\ mf_pc' = IF r.raised THEN "finally" ELSE mf_pc
             ELSE /\ unique_words' = uw
                  /\ UNCHANGED <<stores, add_calls, mf_exc, mf_pc>>
    /\ UNCHANGED <<db_closed, txt_file, csv_file, hist, nops, ifile, mf_pos,
                   num_segments, num_total_tokens, temp, fin_calls, db0,
                   loaderVars, toolVars>>

\* line 53: db.check(token) fails in the store; check logs the plyvel Error
\* and raises it again (db.py lines 58-60)
MainCheckRaises ==
    /\ mf_pc = "tokens"
    /\ tokens # <<>>
    /\ mf_exc' = "Error"
    /\ mf_pc' = "finally"
    /\ UNCHANGED <<storeVars, ifile, mf_pos, tokens, unique_words, num_segments,
                   num_total_tokens, temp, add_calls, mf_peak, fin_calls, db0,
                   loaderVars, toolVars>>

\* lines 60-62: the end of the loop over tokens
MainSegmentEnd ==
    /\ mf_pc = "tokens"
    /\ tokens = <<>>
    /\ LET r == add_batch(stores["db"], unique_words)
       IN IF SegmentFlush(unique_words)
          THEN /\ stores' = [stores EXCEPT !["db"] = r.db]
               /\ add_calls' = Append(add_calls, unique_words)
               /\ unique_words' = <<>>
               /\ mf_exc' = IF r.raised THEN "UnicodeEncodeError" ELSE mf_exc
               /\ mf_pc' = IF r.raised THEN "finally" ELSE "readline"
          ELSE /\ mf_pc' = "readline"
               /\ UNCHANGED <<stores, add_calls, unique_words, mf_exc>>
    /\ UNCHANGED <<db_closed, txt_file, csv_file, hist, nops, ifile, mf_pos,
                   tokens, num_segments, num_total_tokens, temp, mf_peak, fin_calls, db0,
                   loaderVars, toolVars>>

\* line 69, in the finally block: db.dump_to_txt(ofile_name, only_tokens=True)
MainDump ==
    /\ mf_pc = "finally"
    /\ txt_file' = dump_to_txt(stores["db"], txt_file, TRUE)
    /\ fin_calls' = Append(fin_calls, "dump_to_txt")
    /\ mf_pc' = "find_size"
    /\ UNCHANGED <<stores, db_closed, csv_file, hist, nops, ifile, mf_pos,
                   tokens, unique_words, num_segments, num_total_tokens, temp,
                   mf_exc, add_calls, mf_peak, db0, loaderVars,
                   toolVars>>

\* lines 70-71: db.find_size() and the log line, which reads num_total_tokens
MainFindSize ==
    /\ mf_pc = "find_size"
    /\ IF num_total_tokens = Unbound
       THEN /\ mf_exc' = "UnboundLocalError"
            /\ mf_pc' = "done"
       ELSE /\ mf_pc' = "close"
            /\ UNCHANGED mf_exc
    /\ fin_calls' = Append(fin_calls, "find_size")
    /\ UNCHANGED <<storeVars, ifile, mf_pos, tokens, unique_words,
                   num_segments, num_total_tokens, temp, add_calls, mf_peak,
                   db0, loaderVars, toolVars>>

\* line 72: db.close()
MainClose ==
    /\ mf_pc = "close"
    /\ db_closed' = [db_closed EXCEPT !["db"] = close(@)]
    /\ fin_calls' = Append(fin_calls, "close")
    /\ mf_pc' = "done"
    /\ UNCHANGED <<stores, txt_file, csv_file, hist, nops, ifile, mf_pos,
                   tokens, unique_words, num_segments, num_total_tokens, temp,
                   mf_exc, add_calls, mf_peak, db0, loaderVars,
                   toolVars>>

NextMain ==
    \/ MainOpen
    \/ MainReadLine
    \/ MainToken
    \/ MainCheckRaises
    \/ MainSegmentEnd
    \/ MainDump
    \/ MainFindSize
    \/ MainClose

SpecMain == InitMain /\ [][NextMain]_vars

(***************************************************************************)
(* SpecLoader: one call read_segments(file_name, int_file) of loader.py    *)
(***************************************************************************)

\* number of lines of the input file of read_segments
MaxRsLines == 2
\* BATCH_SIZE of read_segments (100000 in the source, scaled down)
BATCH_SIZE == 2

\* '!'
Bang == 33

\* the sentence delimiters of line 47
Delimiters == {Danda, Bang}

\* the lines of the raw files, with the letters DA (2342) and NA (2344):
\* two sentences, text without a delimiter, a line that starts with a
\* delimiter, a blank line, a sentence followed by a blank sentence
RawLines ==
    { <<2342, Danda, SPACE, 2344, Danda>>,
      <<2342, SPACE, 2344>>,
      <<Danda, 2344, Bang>>,
      <<SPACE>>,
      <<2342, Danda, SPACE, Danda>> }

RawFiles ==
    {NoFile}
    \cup {File(Encode(TextOf(ls))) : ls \in SeqsUpTo(RawLines, MaxRsLines)}
    \cup {File(RStrip(Encode(TextOf(ls)))) : ls \in SeqsUpTo(RawLines, MaxRsLines)}

\* line 49: a delimiter closes the segment in progress
ClosesSegment(temp_segment, current) == temp_segment # <<>>

\* lines 45-60: the loop over the characters of one line, from character i;
\* st holds segments, current_segment, temp_segment, the intermediate file
\* and the two logs
RECURSIVE ScanChars(_, _, _)
ScanChars(segment, i, st) ==
    IF i > Len(segment) THEN st
    ELSE IF segment[i] \in Delimiters
    THEN IF ClosesSegment(st.temp_segment, st.current_segment)
         THEN LET parts == Append(st.current_segment, Strip(st.temp_segment))
                  segs  == Append(st.segments, Join(parts))
                  full  == Len(segs) >= BATCH_SIZE
              IN ScanChars(segment, i + 1,
                     [segments        |-> IF full THEN <<>> ELSE segs,
                      current_segment |-> <<>>,
                      temp_segment    |-> <<>>,
                      int_file        |-> IF full THEN writefn(st.int_file, segs).file
                                          ELSE st.int_file,
                      formed          |-> Append(st.formed, Join(parts)),
                      handed          |-> IF full THEN st.handed \o segs
                                          ELSE st.handed,
                      peak            |-> Max(st.peak, Len(segs))])
         ELSE ScanChars(segment, i + 1, st)
    ELSE ScanChars(segment, i + 1,
                   [st EXCEPT !.temp_segment = Append(@, segment[i])])

InitLoader ==
    /\ stores = [i \in Inst |-> {}]
    /\ db_closed = [i \in Inst |-> FALSE]
    /\ txt_file = NoFile
    /\ csv_file = NoFile
    /\ hist = <<>>
    /\ nops = 0
    /\ MainIdle
    /\ rs_file \in RawFiles
    /\ int_file = NoFile
    /\ int0 = NoFile
    /\ rs_pc = "start"
    /\ rs_pos = 1
    /\ mfile_bound = FALSE
    /\ segments = <<>>
    /\ current_segment = <<>>
    /\ rs_exc = "none"
    /\ formed = <<>>
    /\ handed = <<>>
    /\ rs_peak = 0
    /\ TokIdle
    /\ SampleIdle

\* lines 33-35: open the input file and map it
RsOpen ==
    /\ rs_pc = "start"
    /\ IF ~rs_file.exists
       THEN /\ rs_exc' = "FileNotFoundError"
            /\ rs_pc' = "finally"
            /\ UNCHANGED mfile_bound
       ELSE IF rs_file.data = <<>>
       THEN \* mmap refuses an empty file
            /\ rs_exc' = "ValueError"
            /\ rs_pc' = "finally"
            /\ UNCHANGED mfile_bound
       ELSE /\ mfile_bound' = TRUE
            /\ rs_pc' = "loop"
            /\ UNCHANGED rs_exc
    /\ UNCHANGED <<storeVars, mainVars, rs_file, int0, int_file, rs_pos, segments,
                   current_segment, formed, handed, rs_peak, toolVars>>

\* lines 37-63: one iteration of the loop over the lines
RsLine ==
    /\ rs_pc = "loop"
    /\ LET line == ReadLineAt(rs_file.data, rs_pos)
           raw  == Strip(line)
       IN IF line = <<>>
          THEN /\ rs_pc' = "after"
               /\ UNCHANGED <<int_file, rs_pos, segments, current_segment,
                              rs_exc, formed, handed, rs_peak>>
          ELSE IF ~Decodable(raw)
          THEN /\ rs_pos' = rs_pos + Len(line)
               /\ rs_exc' = "UnicodeDecodeError"
               /\ rs_pc' = "finally"
               /\ UNCHANGED <<int_file, segments, current_segment, formed, handed,
                              rs_peak>>
          ELSE IF Decode(raw) = <<>>
          THEN \* line 41: an empty line is skipped
               /\ rs_pos' = rs_pos + Len(line)
               /\ UNCHANGED <<int_file, rs_pc, segments, current_segment,
                              rs_exc, formed, handed, rs_peak>>
          ELSE LET st == ScanChars(Decode(raw), 1,
                             [segments        |-> segments,
                              current_segment |-> current_segment,
                              temp_segment    |-> <<>>,
                              int_file        |-> int_file,
                              formed          |-> formed,
                              handed          |-> handed,
                              peak            |-> rs_peak])
               IN /\ rs_pos' = rs_pos + Len(line)
                  /\ segments' = st.segments
                  /\ current_segment' =
                         IF st.temp_segment # <<>>
                         THEN Append(st.current_segment, Strip(st.temp_segment))
                         ELSE st.current_segment
                  /\ int_file' = st.int_file
                  /\ formed' = st.formed
                  /\ handed' = st.handed
                  /\ rs_peak' = st.peak
                  /\ UNCHANGED <<rs_pc, rs_exc>>
    /\ UNCHANGED <<storeVars, mainVars, rs_file, int0, mfile_bound, toolVars>>

\* lines 65-66: after the loop, the open parts become the last segment
RsAfter ==
    /\ rs_pc = "after"
    /\ IF current_segment # <<>>
       THEN /\ segments' = Append(segments, Join(current_segment))
            /\ formed' = Append(formed, Join(current_segment))
            /\ rs_peak' = Max(rs_peak, Len(segments) + 1)
       ELSE UNCHANGED <<segments, formed, rs_peak>>
    /\ rs_pc' = "finally"
    /\ UNCHANGED <<storeVars, mainVars, rs_file, int0, int_file, rs_pos, mfile_bound,
                   current_segment, rs_exc, handed, toolVars>>

\* lines 72-73: mfile.close(); the name is unbound when open or mmap failed
RsFinally ==
    /\ rs_pc = "finally"
    /\ rs_exc' = IF mfile_bound THEN rs_exc ELSE "UnboundLocalError"
    /\ rs_pc' = "done"
    /\ UNCHANGED <<storeVars, mainVars, rs_file, int0, int_file, rs_pos, mfile_bound,
                   segments, current_segment, formed, handed, rs_peak,
                   toolVars>>

NextLoader ==
    \/ RsOpen
    \/ RsLine
    \/ RsAfter
    \/ RsFinally

SpecLoader == InitLoader /\ [][NextLoader]_vars

(***************************************************************************)
(* SpecWrite: a caller making writefn(int_file, batch) calls               *)
(***************************************************************************)

\* number of writefn calls
MaxWrites == 2

\* segments: a word, two words with two spaces between them, a word with an
\* ASCII digit, a Devanagari digit and a danda, an ASCII word
WriteSegs ==
    { <<2342>>,
      <<2342, SPACE, SPACE, 2344>>,
      <<2344, 49, 2407, Danda>>,
      TokAb }

\* the batches: up to two segments, the empty batch included
WriteBatches == SeqsUpTo(WriteSegs, 2)

\* the intermediate file before the calls: missing, or holding one record
IntFiles == {NoFile, File(Encode(<<2344, NL>>))}

InitWrite ==
    /\ stores = [i \in Inst |-> {}]
    /\ db_closed = [i \in Inst |-> FALSE]
    /\ txt_file = NoFile
    /\ csv_file = NoFile
    /\ hist = <<>>
    /\ nops = 0
    /\ MainIdle
    /\ rs_file = NoFile
    /\ int_file \in IntFiles
    /\ int0 = int_file
    /\ rs_pc = "write"
    /\ rs_pos = 1
    /\ mfile_bound = FALSE
    /\ segments = <<>>
    /\ current_segment = <<>>
    /\ rs_exc = "none"
    /\ formed = <<>>
    /\ handed = <<>>
    /\ rs_peak = 0
    /\ TokIdle
    /\ SampleIdle

\* one call writefn(int_file, segs); rs_exc is the exception it raised
Writefn(segs) ==
    /\ rs_pc = "write"
    /\ nops < MaxWrites
    /\ LET r == writefn(int_file, segs) IN
       /\ int_file' = r.file
       /\ rs_exc' = IF r.raised THEN "UnboundLocalError" ELSE "none"
    /\ handed' = handed \o segs
    /\ nops' = nops + 1
    /\ UNCHANGED <<stores, db_closed, txt_file, csv_file, hist, mainVars,
                   rs_file, int0, rs_pc, rs_pos, mfile_bound, segments,
                   current_segment, formed, rs_peak, toolVars>>

NextWrite == \E segs \in WriteBatches : Writefn(segs)

SpecWrite == InitWrite /\ [][NextWrite]_vars

(***************************************************************************)
(* SpecBatch: one run of either batching loop, main_fn or read_segments    *)
(***************************************************************************)

InitBatch == InitMain \/ InitLoader

NextBatch == NextMain \/ NextLoader

SpecBatch == InitBatch /\ [][NextBatch]_vars

(***************************************************************************)
(* Claims about read_segments (checked under SpecLoader)                   *)
(***************************************************************************)

\* the records writefn writes for a list of segments
RecordsOf(segs) == WriteRecords(<<>>, segs)

\* C2: when read_segments returns normally, every segment it formed has
\* been passed to writefn and written to the intermediate file, including
\* the segments of the last batch of fewer than BATCH_SIZE segments and the
\* final segment built from the open parts at end of input.
C2_AllSegmentsWritten ==
    (rs_pc = "done" /\ rs_exc = "none")
    => /\ handed = formed
       /\ int_file.data = RecordsOf(formed)

\* the segmentation the claim describes: every delimiter closes the text
\* since the previous one, whenever there is any (an open part of this line
\* or parts carried over from earlier lines); st holds the open parts, the
\* part in progress and the segments
RECURSIVE RefChars(_, _, _)
RefChars(segment, i, st) ==
    IF i > Len(segment) THEN st
    ELSE IF segment[i] \in Delimiters
    THEN LET parts == IF st.temp # <<>> THEN Append(st.parts, Strip(st.temp))
                      ELSE st.parts
         IN RefChars(segment, i + 1,
                [parts |-> <<>>, temp |-> <<>>,
                 out   |-> IF parts # <<>> THEN Append(st.out, Join(parts))
                           ELSE st.out])
    ELSE RefChars(segment, i + 1, [st EXCEPT !.temp = Append(@, segment[i])])

RECURSIVE RefLines(_, _)
RefLines(lines, st) ==
    IF lines = <<>>
    THEN IF st.parts # <<>> THEN Append(st.out, Join(st.parts)) ELSE st.out
    ELSE LET text == Decode(Strip(Head(lines)))
             r    == RefChars(text, 1, st)
         IN RefLines(Tail(lines),
                [parts |-> IF r.temp # <<>> THEN Append(r.parts, Strip(r.temp))
                           ELSE r.parts,
                 temp  |-> <<>>,
                 out   |-> r.out])

\* the N (or N + 1) segments of file f, in source order
RefSegments(f) ==
    RefLines(LinesFrom(f.data, 1), [parts |-> <<>>, temp |-> <<>>, out |-> <<>>])

\* C3: for any input with N delimiter-terminated sentences read_segments
\* forms exactly N segments (plus one more if text without a terminator
\* follows the last delimiter), in source order, each equal to the trimmed
\* parts of its constituent lines joined by a single space.
C3_SegmentationOrder ==
    (rs_pc = "done" /\ rs_exc = "none") => formed = RefSegments(rs_file)

(***************************************************************************)
(* Claims about main_fn (checked under SpecMain)                           *)
(***************************************************************************)

\* the filtered tokens of every line of file f
FileTokens(f) ==
    LET lines == LinesFrom(f.data, 1)
    IN UNION {{w \in Range(spacy_tokenizer(Decode(Strip(lines[i])))) : helper(w)} :
                 i \in 1..Len(lines)}

\* the (key, value) tuples main_fn has passed to add_batch, in order
Passed == Flatten(add_calls)

\* how many times token t was passed to add_batch
TimesPassed(t) == Cardinality({i \in 1..Len(Passed) : Passed[i][1] = t})

\* C1: after main_fn completes without raising, the key set of the store is
\* its key set before the run united with the set of all filtered tokens of
\* every line of the input file, and each such token is stored exactly once,
\* as the entry (token, token): it was passed to add_batch once if it was
\* not in the store before the run and never otherwise.
C1_StoreIsUnion ==
    (mf_pc = "done" /\ mf_exc = "none")
    => LET toks == FileTokens(ifile) IN
       /\ Keys(stores["db"]) = Keys(db0) \cup {Encode(t) : t \in toks}
       /\ db0 \subseteq stores["db"]
       /\ \A t \in toks :
              /\ EntriesOf(stores["db"], t) = {<<Encode(t), Encode(t)>>}
              /\ TimesPassed(t) = IF Encode(t) \in Keys(db0) THEN 0 ELSE 1

\* a completed run over a file with a token that was in the store before
\* and one that was not, with at least two add_batch calls
C1_Witness ==
    /\ mf_pc = "done" /\ mf_exc = "none"
    /\ Len(add_calls) >= 2
    /\ \E t \in FileTokens(ifile) : Encode(t) \in Keys(db0)
    /\ \E t \in FileTokens(ifile) : Encode(t) \notin Keys(db0)

\* C4: during one main_fn run no token is passed to add_batch more than
\* once over all add_batch calls (nor is pending twice), and no token that
\* is a key of the store is passed: the tokens passed were not in the store
\* at the start, and the pending ones are not in the store.
C4_AtMostOnce ==
    LET all == Passed \o unique_words IN
    /\ \A i, j \in 1..Len(all) : i # j => all[i][1] # all[j][1]
    /\ \A i \in 1..Len(Passed) : Encode(Passed[i][1]) \notin Keys(db0)
    /\ \A i \in 1..Len(unique_words) :
           Encode(unique_words[i][1]) \notin Keys(stores["db"])

\* a run in which add_batch was called for two segments and a token that
\* the store already held was checked and skipped
C4_Witness ==
    /\ mf_pc = "readline"
    /\ num_segments = 2
    /\ Len(add_calls) >= 2
    /\ \E t \in FileTokens(ifile) : Encode(t) \in Keys(db0) /\ TimesPassed(t) = 0

(***************************************************************************)
(* Claims about the store (checked under SpecStore)                        *)
(***************************************************************************)

\* the most recent call and the one before it
Last == hist[1]
Prev == hist[2]

\* C5: for any store state and any token t, two check-then-add cycles in
\* succession leave exactly one store entry with key t, and the second cycle
\* performs no insert (check reports t present and the store is unchanged).
C5_DedupIdempotent ==
    (/\ Len(hist) = 2
     /\ Last.op = "check_then_add" /\ Prev.op = "check_then_add"
     /\ Last.inst = Prev.inst /\ Last.arg = Prev.arg)
    => /\ Cardinality(EntriesOf(stores[Last.inst], Last.arg)) = 1
       /\ Last.ret = FALSE
       /\ stores[Last.inst] = Last.pre

\* two cycles on a token that was absent: the first one inserted it
C5_Witness ==
    /\ Len(hist) = 2
    /\ Last.op = "check_then_add" /\ Prev.op = "check_then_add"
    /\ Last.inst = Prev.inst /\ Last.arg = Prev.arg
    /\ Prev.ret = TRUE
    /\ EntriesOf(Prev.pre, Prev.arg) = {}

\* C6: add_batch(words) is atomic per call: when it returns normally every
\* pair of words is in the store, and when it raises part-way through the
\* list none of the pairs of that call has become visible (the store is as
\* it was before the call).
C6_AddBatchAtomic ==
    (hist # <<>> /\ Last.op = "add_batch")
    => IF Last.raised
       THEN stores[Last.inst] = Last.pre
       ELSE \A j \in 1..Len(Last.arg) :
                Encode(Last.arg[j][1]) \in Keys(stores[Last.inst])

\* C7: dump_to_txt(path, only_tokens=True) into a fresh file followed by
\* recover_db_from_txt(path) on an empty store yields a store whose key set
\* equals the key set of the dumped store.
C7_RoundTrip ==
    (/\ Len(hist) = 2
     /\ Prev.op = "dump_to_txt" /\ Prev.arg = TRUE /\ ~Prev.fpre.exists
     /\ Last.op = "recover_db_from_txt" /\ Last.pre = {})
    => Keys(stores[Last.inst]) = Keys(Prev.pre)

\* the trimmed content of one line of a recovery file: the whole line for a
\* text file, the first field of the row for a CSV file
LineContent(line, csv) ==
    IF csv THEN Strip(SplitOn(Strip(line), COMMA)[1]) ELSE Strip(line)

\* the non-empty trimmed contents of the lines of file f
SurvivingWords(f, csv) ==
    LET lines == ReadLines(Decode(f.data))
    IN {LineContent(lines[i], csv) : i \in 1..Len(lines)} \ {<<>>}

\* C8: recover_db_from_txt and recover_from_csv put the entry (w, w) for
\* every line or row whose trimmed content w is non-empty and put nothing
\* for a line or row whose trimmed content is empty.
C8_RecoverNonEmpty ==
    (/\ hist # <<>>
     /\ Last.op \in {"recover_db_from_txt", "recover_from_csv"}
     /\ ~Last.raised)
    => LET ws == SurvivingWords(Last.arg, Last.op = "recover_from_csv")
       IN stores[Last.inst] =
              {e \in Last.pre : \A w \in ws : e[1] # Encode(w)}
              \cup {<<Encode(w), Encode(w)>> : w \in ws}

\* C9: recovery is idempotent: running recover_db_from_txt (or
\* recover_from_csv) a second time on the same file and store leaves the
\* store with the entries it had after the first run.
C9_RecoverIdempotent ==
    (/\ Len(hist) = 2
     /\ Last.op \in {"recover_db_from_txt", "recover_from_csv"}
     /\ Prev.op = Last.op /\ Prev.inst = Last.inst /\ Prev.arg = Last.arg)
    => stores[Last.inst] = Last.pre

\* a recovery run twice, whose first run added entries to the store
C9_Witness ==
    /\ Len(hist) = 2
    /\ Last.op \in {"recover_db_from_txt", "recover_from_csv"}
    /\ Prev.op = Last.op /\ Prev.inst = Last.inst /\ Prev.arg = Last.arg
    /\ ~Prev.raised
    /\ Prev.pre # Last.pre

\* sum over the entries of s of len(key) + len(value)
RECURSIVE SumBytes(_)
SumBytes(s) ==
    IF s = {} THEN 0
    ELSE LET e == CHOOSE x \in s : TRUE
         IN Len(e[1]) + Len(e[2]) + SumBytes(s \ {e})

\* sum over the tokens of T of 2 * len(token), len in bytes
RECURSIVE SumTwice(_)
SumTwice(T) ==
    IF T = {} THEN 0
    ELSE LET t == CHOOSE x \in T : TRUE
         IN 2 * Len(Encode(t)) + SumTwice(T \ {t})

\* C10: after any sequence of add_batch, recovery and delete operations,
\* find_size() returns (totalBytes, entryCount) with entryCount the number of
\* distinct keys in the store and totalBytes the sum over the entries of
\* len(key) + len(value) in bytes; when the store holds exactly M distinct
\* tokens inserted as (token, token), entryCount = M and totalBytes is the sum
\* of 2 * len(token).
C10_SizeConsistent ==
    (hist # <<>> /\ Last.op = "find_size")
    => /\ Last.ret[2] = Cardinality(Keys(stores[Last.inst]))
       /\ Last.ret[1] = SumBytes(stores[Last.inst])
       /\ \A T \in SUBSET {TokDin, TokRat, TokAb} :
              stores[Last.inst] = {<<Encode(t), Encode(t)>> : t \in T}
              => Last.ret = <<SumTwice(T), Cardinality(T)>>

\* find_size on a store of at least two entries, one with value # key,
\* right after an add_batch
C10_Witness ==
    /\ Len(hist) = 2
    /\ Last.op = "find_size" /\ Prev.op = "add_batch"
    /\ Last.ret[2] >= 2
    /\ \E e \in stores[Last.inst] : e[1] # e[2]

(***************************************************************************)
(* Claims about the batching loops (checked under SpecBatch)               *)
(***************************************************************************)

\* C11: at every point of a run outside the flush call itself the pending
\* batch holds at most the configured batch size: len(segments) <=
\* BATCH_SIZE in read_segments and len(unique_words) <= batch_size in
\* main_fn; the peaks record the length after every append.
C11_BatchBounded ==
    /\ Len(segments) <= BATCH_SIZE
    /\ rs_peak <= BATCH_SIZE
    /\ Len(unique_words) <= batch_size
    /\ mf_peak <= batch_size

\* read_segments has filled a batch, flushed it and holds segments again
C11_Witness ==
    /\ rs_peak = BATCH_SIZE
    /\ handed # <<>>
    /\ segments # <<>>

(***************************************************************************)
(* Further claims about main_fn (checked under SpecMain)                   *)
(***************************************************************************)

\* ceil(k / b)
CeilDiv(k, b) == (k + b - 1) \div b

\* C12: given batch size B and K tokens inserted in total during one main_fn
\* run, the store receives exactly ceil(K / B) add_batch calls, every call
\* but the last holding B pairs and the last holding K mod B pairs (or B
\* when B divides K).
C12_BatchBoundary ==
    (mf_pc = "done" /\ mf_exc = "none")
    => LET K == Len(Passed)
           n == Len(add_calls)
       IN /\ n = CeilDiv(K, batch_size)
          /\ \A i \in 1..(n - 1) : Len(add_calls[i]) = batch_size
          /\ n > 0 => Len(add_calls[n]) =
                          IF K % batch_size = 0 THEN batch_size
                          ELSE K % batch_size

(***************************************************************************)
(* Further claims about read_segments and writefn (checked under           *)
(* SpecLoader)                                                             *)
(***************************************************************************)

\* C13: for every input, no segment that read_segments appends to its batch
\* (and so hands to writefn) is the empty string.
C13_NoEmptySegment ==
    /\ \A i \in 1..Len(formed) : formed[i] # <<>>
    /\ \A i \in 1..Len(segments) : segments[i] # <<>>
    /\ \A i \in 1..Len(handed) : handed[i] # <<>>

(***************************************************************************)
(* Claims about the finally block of main_fn (checked under SpecMain)      *)
(***************************************************************************)

\* the exceptions raised inside the loop over the segments
StreamingErrors == {"UnicodeDecodeError", "UnicodeEncodeError", "Error"}

C15_CloseIdempotent ==
    (hist # <<>> /\ Last.op = "close" /\ Last.closed)
    => /\ ~Last.raised
       /\ Last.ret = FALSE
       /\ db_closed[Last.inst]
       /\ stores[Last.inst] = Last.pre

\* two close() calls in a row on one object, the first of which closed the
\* underlying database
C15_Witness ==
    /\ Len(hist) = 2
    /\ Last.op = "close" /\ Prev.op = "close"
    /\ Last.inst = Prev.inst
    /\ ~Prev.closed /\ Prev.ret = TRUE
    /\ Last.closed

\* the bytes the last call appended to the text file
Appended == SubSeq(txt_file.data, Len(Last.fpre.data) + 1, Len(txt_file.data))

\* C16: each dump_to_txt(path, only_tokens) call leaves the previous content
\* of path intact and appends exactly one header line 'Words' followed by
\* one line per store entry, in the store's key order, the line being 'key'
\* when only_tokens is true and 'key,value' otherwise.
C16_DumpAppends ==
    (hist # <<>> /\ Last.op = "dump_to_txt")
    => LET it    == Iterator(Last.pre)
           lines == LinesFrom(Appended, 1)
       IN /\ txt_file.exists
          /\ Len(txt_file.data) >= Len(Last.fpre.data)
          /\ SubSeq(txt_file.data, 1, Len(Last.fpre.data)) = Last.fpre.data
          /\ Len(lines) = 1 + Cardinality(Last.pre)
          /\ lines[1] = <<87, 111, 114, 100, 115, NL>>
          /\ \A k \in 1..Len(it) :
                 lines[k + 1] = IF Last.arg THEN it[k][1] \o <<NL>>
                                ELSE it[k][1] \o <<COMMA>> \o it[k][2] \o <<NL>>
          /\ \A k \in 1..(Len(it) - 1) : BytesLess(it[k][1], it[k + 1][1])
          /\ stores[Last.inst] = Last.pre

\* a dump with only_tokens false of a store of two entries into a file that
\* already held a dump
C16_Witness ==
    /\ Len(hist) = 2
    /\ Last.op = "dump_to_txt" /\ Last.arg = FALSE
    /\ Prev.op = "dump_to_txt"
    /\ Last.fpre.data # <<>>
    /\ Cardinality(Last.pre) >= 2

(***************************************************************************)
(* Claims about writefn (checked under SpecWrite)                          *)
(***************************************************************************)

\* C17: after any sequence of writefn(int_file, batch) calls, the
\* intermediate file consists of its content before the first call followed
\* by one record per segment (the cleaned segment plus a newline), in the
\* order of the calls and of the segments within each batch; no call
\* truncates or reorders records written earlier.
C17_WriteAppends ==
    rs_pc = "write"
    => int_file.data =
           int0.data \o Flatten([i \in 1..Len(handed) |->
                                    Encode(clean(handed[i])) \o <<NL>>])

\* two writefn calls on a file that already held a record, three segments
\* written in all, one of them changed by the cleaning
C17_Witness ==
    /\ rs_pc = "write"
    /\ nops = 2
    /\ int0.data # <<>>
    /\ Len(handed) >= 3
    /\ \E i \in 1..Len(handed) : clean(handed[i]) # handed[i]
    /\ handed[1] # handed[Len(handed)]

(***************************************************************************)
(* Claims about the dedup test of main_fn (checked under SpecMain)         *)
(***************************************************************************)

\* the pending batch right after the append test of the step: the list
\* handed to add_batch when the step flushed it, else unique_words
PendingAfter ==
    IF add_calls' # add_calls THEN add_calls'[Len(add_calls')]
    ELSE unique_words'

\* C18: check(key) returns True exactly when key is absent from the store
\* and False exactly when it is present, and main_fn appends (token, token)
\* to the pending batch exactly when check(token) returns True: in every
\* iteration of the loop over tokens the pair is appended iff the token is
\* not a key of the store.
C18_CheckPolarity ==
    [][(mf_pc = "tokens" /\ tokens # <<>> /\ tokens' = Tail(tokens))
       => LET token == Head(tokens)
          IN /\ check(stores["db"], token)
                    = (Encode(token) \notin {e[1] : e \in stores["db"]})
             /\ PendingAfter =
                    IF Encode(token) \notin {e[1] : e \in stores["db"]}
                    THEN Append(unique_words, <<token, token>>)
                    ELSE unique_words]_vars

\* the loop over the tokens of the only line has ended with a token
\* appended and a token that the store held skipped
C18_Witness ==
    /\ mf_pc = "tokens"
    /\ tokens = <<>>
    /\ Len(LinesFrom(ifile.data, 1)) = 1
    /\ unique_words # <<>>
    /\ \E t \in FileTokens(ifile) :
           /\ Encode(t) \in Keys(db0)
           /\ \A i \in 1..Len(unique_words) : unique_words[i][1] # t

(***************************************************************************)
(* Claims about destroy_db and backup_db (checked under SpecStore)         *)
(***************************************************************************)

C20_BackupCopies ==
    (hist # <<>> /\ Last.op = "backup_db" /\ ~Last.raised)
    => LET dest == stores[Last.arg.bdb_path] IN
       /\ \A e \in Last.pre : e \in dest
       /\ \A e \in Last.pre : \A d \in dest : d[1] = e[1] => d[2] = e[2]
       /\ Last.arg.dest = {} => dest = Last.pre
       /\ stores[Last.inst] = Last.pre

\* a backup of a store of two entries into a closed store that already
\* held entries
C20_Witness ==
    /\ hist # <<>>
    /\ Last.op = "backup_db" /\ ~Last.raised
    /\ Cardinality(Last.pre) >= 2
    /\ Last.arg.dest # {}
    /\ Last.arg.dest # stores[Last.arg.bdb_path]

(***************************************************************************)
(* Claims about the failure paths of read_segments (checked under          *)
(* SpecLoader)                                                             *)
(***************************************************************************)

\* C21: when read_segments fails, the exception that reaches the caller is
\* the originating decode or I/O error (FileNotFoundError when the input
\* file does not exist), and the records already written to the
\* intermediate file stay in place: the finally block changes neither the
\* exception in flight nor the intermediate file.
C21_OriginatingError ==
    [][(rs_pc = "finally" /\ rs_exc # "none")
       => (rs_exc' = rs_exc /\ int_file' = int_file)]_vars

\* the index of the first delimiter of text, 0 when it has none
FirstDelimiter(text) ==
    IF \E i \in 1..Len(text) : text[i] \in Delimiters
    THEN CHOOSE i \in 1..Len(text) :
             /\ text[i] \in Delimiters
             /\ \A j \in 1..(i - 1) : text[j] \notin Delimiters
    ELSE 0

\* C22: in read_segments every delimiter character closes the segment in
\* progress whenever that segment has any open part, including parts
\* carried over from earlier lines: at the first delimiter of a line the
\* current part (if any) is appended trimmed, all parts are joined with a
\* single space into one finished segment, so the text before the delimiter
\* is a segment of its own.
C22_DelimiterCloses ==
    [][(rs_pc = "loop" /\ rs_pc' = "loop" /\ rs_pos' # rs_pos)
       => LET text  == Decode(Strip(ReadLineAt(rs_file.data, rs_pos)))
              p     == FirstDelimiter(text)
              open_part == SubSeq(text, 1, p - 1)
              parts == IF open_part # <<>>
                       THEN Append(current_segment, Strip(open_part))
                       ELSE current_segment
          IN (p > 0 /\ parts # <<>>)
             => /\ Len(formed') > Len(formed)
                /\ formed'[Len(formed) + 1] = Join(parts)]_vars


(***************************************************************************)
(* SpecReport: the reporting methods of LevelDB on a store whose iterator  *)
(* can raise pl.Error part-way (a corrupt block, an I/O error)             *)
(***************************************************************************)

\* number of calls of the reporting client
MaxReports == 2

\* a key of two words
TokTwo == <<97, 32, 98>>
\* a key with a comma and a double quote, which csv.writer has to quote
TokQuoted == <<97, 44, 34>>

\* stores to report on: the initial ones and one whose entries have a value
\* that differs from the key, a key of two words and a key to be quoted
ReportStores ==
    InitStores \union {PutAll({}, <<<<TokAb, TokDin>>, <<TokTwo, TokTwo>>,
                                    <<TokQuoted, TokQuoted>>>>)}

\* the dump and CSV files the reporting client starts with
ReportFiles == {NoFile, File(Encode(TextOf(<<TokDin>>)))}

\* how an iteration over s can go: it yields the first `yielded` entries and
\* then raises pl.Error (iter_error), or it yields every entry and ends
ScanPoints(s) ==
    {[yielded |-> n, iter_error |-> e] :
        <<n, e>> \in {x \in (0..Cardinality(s)) \X BOOLEAN :
                          ~x[2] => x[1] = Cardinality(s)}}

\* the entries the loop body has processed at the end of the scan
Yielded(s, p) == SubSeq(Iterator(s), 1, p.yielded)

\* LevelDB.find_size() under scan p: `except pl.Error` logs and falls
\* through to the return
find_size_scan(s, p) ==
    [ret |-> SizeLoop(Yielded(s, p), 0, 0), raised |-> FALSE]

\* LevelDB.dump_to_txt(txt_file, only_tokens) under scan p: the with-block
\* closes the file with what was written, `except Exception` logs and
\* re-raises
dump_to_txt_scan(s, f, only_tokens, p) ==
    LET it == Yielded(s, p)
    IN [file   |-> File(f.data \o Encode(Header \o <<NL>>)
                        \o Flatten([i \in 1..Len(it) |->
                                       Encode(DumpLine(it[i], only_tokens))])),
        raised |-> p.iter_error]

\* LevelDB.check(key) in the reporting client: key.encode raises on a lone
\* surrogate, and a pl.Error of db.get is logged and raised again
check_call(s, key, get_error) ==
    IF ~Encodable(key) \/ get_error THEN [ret |-> None, raised |-> TRUE]
    ELSE [ret |-> check(s, key), raised |-> FALSE]

\* LevelDB.show_db() under scan p: the lines logged; `except pl.Error` logs
show_db(s, p) ==
    LET it == Yielded(s, p)
    IN [db     |-> s,
        ret    |-> [i \in 1..Len(it) |->
                       Decode(it[i][1]) \o <<SPACE, 45, SPACE>> \o Decode(it[i][2])],
        raised |-> FALSE]

\* '\r' and '"'
CR == 13
DQUOTE == 34

\* str(n) for a natural number
RECURSIVE Digits(_)
Digits(n) == IF n < 10 THEN <<48 + n>> ELSE Digits(n \div 10) \o <<48 + (n % 10)>>

\* csv.writer, one field: quoted when it holds the delimiter, the quote
\* character or a line break, the quote characters inside it doubled
CsvField(w) ==
    IF \E i \in 1..Len(w) : w[i] \in {COMMA, DQUOTE, CR, NL}
    THEN <<DQUOTE>>
         \o Flatten([i \in 1..Len(w) |->
                        IF w[i] = DQUOTE THEN <<DQUOTE, DQUOTE>> ELSE <<w[i]>>])
         \o <<DQUOTE>>
    ELSE w

\* csv.writer.writerow(fields): a row of one empty field is written as ""
RECURSIVE CsvJoin(_)
CsvJoin(fields) ==
    IF Len(fields) = 1 THEN fields[1]
    ELSE fields[1] \o <<COMMA>> \o CsvJoin(Tail(fields))

WriteRow(fields) ==
    (IF fields = <<<<>>>> THEN <<DQUOTE, DQUOTE>>
     ELSE CsvJoin([i \in 1..Len(fields) |-> CsvField(fields[i])]))
    \o <<CR, NL>>

\* a dump that removes from the store the entries it has written
dump_to_csv_moving(s, f, p) ==
    LET it == Yielded(s, p)
    IN [db     |-> s \ Range(it),
        file   |-> File(Encode(WriteRow(<<Header>>)
                          \o Flatten([i \in 1..Len(it) |->
                                         WriteRow(<<Decode(it[i][1])>>)]))),
        raised |-> p.iter_error]

\* LevelDB.dump_to_csv(csv_file) under scan p: mode 'w' drops the previous
\* content; `except Exception` logs and re-raises
dump_to_csv(s, f, p) ==
    LET it == Yielded(s, p)
    IN [db     |-> s,
        file   |-> File(Encode(WriteRow(<<Header>>)
                          \o Flatten([i \in 1..Len(it) |->
                                         WriteRow(<<Decode(it[i][1])>>)]))),
        raised |-> p.iter_error]

\* 'Word' and 'lengths', the header row of get_word_lengths
WordLengthsHeader ==
    << <<87, 111, 114, 100>>, <<108, 101, 110, 103, 116, 104, 115>> >>

\* LevelDB.get_word_lengths(csvname) under scan p: mode 'a'; a key of more
\* than one word is logged, any other key gives the row (key, len(key))
get_word_lengths(s, f, p) ==
    LET it == Yielded(s, p)
        Row(e) == LET dkey == Decode(e[1])
                  IN IF Len(SplitOn(dkey, SPACE)) > 1 THEN <<>>
                     ELSE WriteRow(<<dkey, Digits(Len(dkey))>>)
    IN [db     |-> s,
        file   |-> File(f.data \o Encode(WriteRow(WordLengthsHeader)
                                  \o Flatten([i \in 1..Len(it) |-> Row(it[i])]))),
        raised |-> p.iter_error]

InitReport ==
    /\ stores \in {[i \in Inst |-> IF i = "db" THEN s ELSE {}] : s \in ReportStores}
    /\ txt_file \in ReportFiles
    /\ csv_file \in ReportFiles
    /\ db_closed = [i \in Inst |-> FALSE]
    /\ hist = <<>>
    /\ nops = 0
    /\ MainIdle
    /\ LoaderIdle
    /\ TokIdle
    /\ SampleIdle

ReportFindSize(i) ==
    /\ nops < MaxReports
    /\ ~db_closed[i]
    /\ \E p \in ScanPoints(stores[i]) :
           LET r == find_size_scan(stores[i], p) IN
           Logged(Call("find_size", i, p, r.ret, r.raised))
    /\ UNCHANGED <<stores, db_closed, txt_file, csv_file, mainVars, loaderVars,
                   toolVars>>

ReportDumpToTxt(i, only_tokens) ==
    /\ nops < MaxReports
    /\ ~db_closed[i]
    /\ \E p \in ScanPoints(stores[i]) :
           LET r == dump_to_txt_scan(stores[i], txt_file, only_tokens, p) IN
           /\ txt_file' = r.file
           /\ Logged(Call("dump_to_txt", i,
                          [only_tokens |-> only_tokens, scan |-> p], None, r.raised))
    /\ UNCHANGED <<stores, db_closed, csv_file, mainVars, loaderVars,
                   toolVars>>

ReportCheck(i, key, get_error) ==
    /\ nops < MaxReports
    /\ ~db_closed[i]
    /\ LET r == check_call(stores[i], key, get_error) IN
       Logged(Call("check", i, key, r.ret, r.raised))
    /\ UNCHANGED <<stores, db_closed, txt_file, csv_file, mainVars, loaderVars,
                   toolVars>>

ReportShowDb(i) ==
    /\ nops < MaxReports
    /\ ~db_closed[i]
    /\ \E p \in ScanPoints(stores[i]) :
           LET r == show_db(stores[i], p) IN
           /\ stores' = [stores EXCEPT ![i] = r.db]
           /\ Logged(Call("show_db", i, p, r.ret, r.raised))
    /\ UNCHANGED <<db_closed, txt_file, csv_file, mainVars, loaderVars,
                   toolVars>>

ReportDumpToCsv(i) ==
    /\ nops < MaxReports
    /\ ~db_closed[i]
    /\ \E p \in ScanPoints(stores[i]) :
           LET r == dump_to_csv(stores[i], csv_file, p) IN
           /\ stores' = [stores EXCEPT ![i] = r.db]
           /\ csv_file' = r.file
           /\ Logged(Call("dump_to_csv", i, p, None, r.raised))
    /\ UNCHANGED <<db_closed, txt_file, mainVars, loaderVars, toolVars>>

ReportGetWordLengths(i) ==
    /\ nops < MaxReports
    /\ ~db_closed[i]
    /\ \E p \in ScanPoints(stores[i]) :
           LET r == get_word_lengths(stores[i], csv_file, p) IN
           /\ stores' = [stores EXCEPT ![i] = r.db]
           /\ csv_file' = r.file
           /\ Logged(Call("get_word_lengths", i, p, None, r.raised))
    /\ UNCHANGED <<db_closed, txt_file, mainVars, loaderVars, toolVars>>

NextReport ==
    \/ \E i \in Main : ReportFindSize(i)
    \/ \E i \in Main, only_tokens \in BOOLEAN : ReportDumpToTxt(i, only_tokens)
    \/ \E i \in Main, key \in CycleToks \cup {BadStr}, get_error \in BOOLEAN :
           ReportCheck(i, key, get_error)
    \/ \E i \in Main : ReportShowDb(i)
    \/ \E i \in Main : ReportDumpToCsv(i)
    \/ \E i \in Main : ReportGetWordLengths(i)

SpecReport == InitReport /\ [][NextReport]_vars

\* C23: if iterating the store fails part-way during a reporting operation,
\* find_size and dump_to_txt both log the error and do not raise: the scan
\* stops early and the operation returns with what was accumulated so far,
\* find_size the size and count of the entries scanned, dump_to_txt the dump
\* file with the header and the lines of the entries scanned.
C23_ScanErrorsSwallowed ==
    /\ (hist # <<>> /\ Last.op = "find_size" /\ Last.arg.iter_error)
       => /\ ~Last.raised
          /\ Last.ret = SizeLoop(SubSeq(Iterator(Last.pre), 1, Last.arg.yielded), 0, 0)
    /\ (hist # <<>> /\ Last.op = "dump_to_txt" /\ Last.arg.scan.iter_error)
       => /\ ~Last.raised
          /\ Len(LinesFrom(Appended, 1)) = 1 + Last.arg.scan.yielded


\* C24: whenever main_fn terminates, normally or by raising on any path
\* (including a failure to open or map the input file), the store passed to
\* it has been closed: db_closed is true.
C24_ClosedOnExit == (mf_pc = "done") => db_closed["db"]


\* the filtered tokens of one line of the input file
LineTokens(line) ==
    {w \in Range(spacy_tokenizer(Decode(Strip(line)))) : helper(w)}

\* the number of lines main_fn has read: the index of the segment it is
\* processing, or was processing when it failed
SegmentsRead == Len(LinesFrom(SubSeq(ifile.data, 1, mf_pos - 1), 1))

\* the lines the dump of the finally block wrote
DumpedLines == Range(LinesFrom(txt_file.data, 1))

ReadOnlyOps ==
    {"check", "find_size", "show_db", "dump_to_txt", "dump_to_csv", "get_word_lengths"}

\* C26: the read-only operations check, find_size, show_db, dump_to_txt,
\* dump_to_csv and get_word_lengths leave the store's entry set unchanged,
\* whether they return normally or raise.
C26_ReadOnlyFrame ==
    (hist # <<>> /\ Last.op \in ReadOnlyOps) => stores[Last.inst] = Last.pre

\* a dump_to_csv that raised after writing one of three entries, right after
\* a check that returned normally
C26_Witness ==
    /\ Len(hist) = 2
    /\ Last.op = "dump_to_csv" /\ Last.raised
    /\ Last.arg.yielded = 1 /\ Cardinality(Last.pre) = 3
    /\ Prev.op = "check" /\ ~Prev.raised


(***************************************************************************)
(* SpecUrdu: the script clean-up of a store that holds Urdu words, words   *)
(* of other scripts and mixed words                                        *)
(***************************************************************************)

\* the Urdu word 'din', and a word of an Urdu letter and an ASCII letter
TokUrdu == <<1583, 1606>>
TokMixed == <<1575, 97>>

UrduStores ==
    {PutWords({}, ws) : ws \in {<<>>, <<TokUrdu>>, <<TokDin, TokAb>>,
                                <<TokUrdu, TokDin, TokMixed>>}}

UrduBatches == {<<<<TokUrdu, TokUrdu>>>>, <<<<TokRat, TokRat>>>>}

InitUrdu ==
    /\ stores \in {[i \in Inst |-> IF i = "db" THEN s ELSE {}] : s \in UrduStores}
    /\ txt_file = NoFile
    /\ csv_file = NoFile
    /\ db_closed = [i \in Inst |-> FALSE]
    /\ hist = <<>>
    /\ nops = 0
    /\ MainIdle
    /\ LoaderIdle
    /\ TokIdle
    /\ SampleIdle

NextUrdu ==
    \/ \E i \in Main, words \in UrduBatches : AddBatch(i, words)
    \/ \E i \in Main, if_remove \in BOOLEAN : CheckForUrUnicode(i, if_remove)

SpecUrdu == InitUrdu /\ [][NextUrdu]_vars

\* the entries whose key holds at least one character outside the Urdu set
NonUrdu(s) ==
    {e \in s : \E i \in 1..Len(Decode(e[1])) : Decode(e[1])[i] \notin urdu_chars}

\* C27: check_for_ur_unicode(if_remove) returns the number of keys that
\* contain at least one character outside the Urdu character set; with
\* if_remove true it deletes exactly those keys and leaves every other
\* entry unchanged, and with if_remove false it leaves the store unchanged.
C27_UrduCleanup ==
    (hist # <<>> /\ Last.op = "check_for_ur_unicode")
    => /\ Last.ret = Cardinality(NonUrdu(Last.pre))
       /\ stores[Last.inst] = IF Last.arg THEN Last.pre \ NonUrdu(Last.pre)
                              ELSE Last.pre

\* a removing call on a store with Urdu, mixed and Devanagari keys, right
\* after a counting call that found the same words and kept them
C27_Witness ==
    /\ Len(hist) = 2
    /\ Last.op = "check_for_ur_unicode" /\ Last.arg /\ Last.ret >= 2
    /\ Prev.op = "check_for_ur_unicode" /\ ~Prev.arg /\ Prev.ret = Last.ret
    /\ Encode(TokMixed) \in Keys(Last.pre)
    /\ Keys(stores["db"]) = {Encode(TokUrdu)}


(***************************************************************************)
(* SpecTok: a HindiTokenizer object and the calls of its tokenize          *)
(***************************************************************************)

\* number of tokenize calls
MaxTokCalls == 2
\* number of words of a text
MaxWords == 2

\* the words of the texts: a Devanagari word, an ASCII word, a number in
\* Devanagari digits, a lone vowel sign, and a Latin letter followed by a
\* Devanagari letter
TokWords ==
    {TokDin, TokAb, <<2407, 2408>>, <<2367>>, <<97, 2342>>}

InitTok ==
    /\ stores = [i \in Inst |-> {}]
    /\ db_closed = [i \in Inst |-> FALSE]
    /\ txt_file = NoFile
    /\ csv_file = NoFile
    /\ hist = <<>>
    /\ nops = 0
    /\ MainIdle
    /\ LoaderIdle
    /\ TokIdle
    /\ SampleIdle

\* lines 213-239: tokenize(text, is_unique) with the spacy backend
Tokenize(text, is_unique) ==
    /\ tk_calls < MaxTokCalls
    /\ \E b \in tokenize_with_spacy(text, is_unique) :
           /\ tk_backend' = b
           /\ token_list' = remove_non_hi_tokens(b[3])
           /\ tk_ret' = <<b[1], Len(remove_non_hi_tokens(b[3])),
                          remove_non_hi_tokens(b[3])>>
    /\ tk_text' = text
    /\ tk_calls' = tk_calls + 1
    /\ UNCHANGED <<storeVars, mainVars, loaderVars, sampleVars>>

NextTok ==
    \E ws \in SeqsUpTo(TokWords, MaxWords), is_unique \in BOOLEAN :
        Tokenize(Join(ws), is_unique)

SpecTok == InitTok /\ [][NextTok]_vars

\* the word contains at least one character in U+0900..U+097F
InDevanagari(word) == \E i \in 1..Len(word) : 2304 <= word[i] /\ word[i] <= 2431

\* C28: HindiTokenizer.tokenize(text) returns (n, m, tokens) where tokens is
\* exactly the sub-list of the backend's tokens that contain at least one
\* character in the Devanagari code-point range U+0900..U+097F, m is
\* len(tokens), and n is the backend's token count before filtering.
C28_DevanagariFilter ==
    (tk_calls > 0)
    => /\ tk_ret[3] = SelectSeq(tk_backend[3], InDevanagari)
       /\ tk_ret[2] = Len(tk_ret[3])
       /\ tk_ret[1] = tk_backend[1]
       /\ token_list = tk_ret[3]


(***************************************************************************)
(* SpecSample: generate_random_indices followed by extract_sentences, as   *)
(* main of random_sampling.py calls them                                   *)
(***************************************************************************)

\* the largest limit and num_indices passed to generate_random_indices
MaxLimit == 3
\* number of lines of the input file of extract_sentences
MaxSampleLines == 3

\* the input files: missing, or up to MaxSampleLines lines that are a word
\* or a padded word, and a file whose last line has no newline; the output
\* file is missing or holds a line
SampleFiles ==
    {NoFile, File(Encode(TokDin \o <<NL>> \o TokAb))}
    \cup {File(Encode(TextOf(ls))) :
             ls \in SeqsUpTo({TokDin, <<SPACE>> \o TokAb \o <<SPACE>>}, MaxSampleLines)}

\* generate_random_indices(limit, num_indices): the lists that
\* sorted(random.sample(range(limit), num_indices)) can be
generate_random_indices(limit, num_indices) ==
    {ix \in [1..num_indices -> 0..(limit - 1)] :
        \A i, j \in 1..num_indices : i < j => ix[i] < ix[j]}

InitSample ==
    /\ stores = [i \in Inst |-> {}]
    /\ db_closed = [i \in Inst |-> FALSE]
    /\ txt_file = NoFile
    /\ csv_file = NoFile
    /\ hist = <<>>
    /\ nops = 0
    /\ MainIdle
    /\ LoaderIdle
    /\ TokIdle
    /\ sm_pc = "start"
    /\ sm_in \in SampleFiles
    /\ sm_out \in {NoFile, File(Encode(TextOf(<<TokAb>>)))}
    /\ sm_out0 = sm_out
    /\ indices = <<>>
    /\ line_number = 0
    /\ current_index = 0
    /\ extracted_count = 0
    /\ eof_reached = FALSE
    /\ sm_ret = None
    /\ sm_exc = "none"

\* lines 49-55: generate_random_indices(limit, num_indices, seed)
SampleGenerate(limit, num_indices) ==
    /\ sm_pc = "start"
    /\ IF num_indices > limit
       THEN /\ sm_exc' = "ValueError"
            /\ sm_pc' = "done"
            /\ UNCHANGED indices
       ELSE /\ indices' \in generate_random_indices(limit, num_indices)
            /\ sm_pc' = "open"
            /\ UNCHANGED sm_exc
    /\ UNCHANGED <<storeVars, mainVars, loaderVars, tokVars, sm_in, sm_out, sm_out0,
                   line_number, current_index, extracted_count, eof_reached,
                   sm_ret>>

\* lines 73-79: the input file is opened for reading, then the output file
\* for appending
SampleOpen ==
    /\ sm_pc = "open"
    /\ IF ~sm_in.exists
       THEN /\ sm_exc' = "FileNotFoundError"
            /\ sm_pc' = "done"
            /\ UNCHANGED sm_out
       ELSE /\ sm_out' = File(sm_out.data)
            /\ sm_pc' = "loop"
            /\ UNCHANGED sm_exc
    /\ UNCHANGED <<storeVars, mainVars, loaderVars, tokVars, sm_in, sm_out0, indices,
                   line_number, current_index, extracted_count, eof_reached,
                   sm_ret>>

\* lines 81-100: one iteration of the loop over the lines, or its end and
\* the return; list indices start at 0 in the source and at 1 here
SampleLine ==
    /\ sm_pc = "loop"
    /\ LET lines == ReadLines(Decode(sm_in.data)) IN
       IF line_number = Len(lines)
       THEN /\ sm_ret' = Some(eof_reached)
            /\ sm_pc' = "done"
            /\ UNCHANGED <<sm_out, line_number, current_index, extracted_count,
                           eof_reached, sm_exc>>
       ELSE IF current_index >= Len(indices)
       THEN \* indices[current_index] on an empty list
            /\ line_number' = line_number + 1
            /\ sm_exc' = "IndexError"
            /\ sm_pc' = "done"
            /\ UNCHANGED <<sm_out, current_index, extracted_count, eof_reached,
                           sm_ret>>
       ELSE IF line_number + 1 = indices[current_index + 1]
       THEN /\ line_number' = line_number + 1
            /\ sm_out' = File(sm_out.data
                              \o Encode(Strip(lines[line_number + 1]) \o <<NL>>))
            /\ extracted_count' = extracted_count + 1
            /\ current_index' = current_index + 1
            /\ IF current_index + 1 >= Len(indices)
               THEN /\ eof_reached' = TRUE
                    /\ sm_ret' = Some(TRUE)
                    /\ sm_pc' = "done"
               ELSE UNCHANGED <<eof_reached, sm_ret, sm_pc>>
            /\ UNCHANGED sm_exc
       ELSE /\ line_number' = line_number + 1
            /\ UNCHANGED <<sm_out, current_index, extracted_count, eof_reached,
                           sm_ret, sm_pc, sm_exc>>
    /\ UNCHANGED <<storeVars, mainVars, loaderVars, tokVars, sm_in, sm_out0, indices>>

NextSample ==
    \/ \E limit \in 0..MaxLimit, num_indices \in 0..MaxLimit :
           SampleGenerate(limit, num_indices)
    \/ SampleOpen
    \/ SampleLine

SpecSample == InitSample /\ [][NextSample]_vars

\* C29: for any sorted list of distinct line indices produced by
\* generate_random_indices(limit, n), extract_sentences appends to the
\* output file exactly the input lines selected by those indices, in order,
\* and returns True exactly when every index in the list was extracted and
\* False when the end of the input was reached first.  An index selects the
\* line with that line number, counted from 1 as the loop counts, so the
\* index 0 selects no line; the lines are written trimmed.
C29_ExtractSelected ==
    (sm_pc = "done" /\ sm_exc = "none" /\ indices # <<>>)
    => LET lines    == ReadLines(Decode(sm_in.data))
           selected == SelectSeq(indices, LAMBDA i : i \in 1..Len(lines))
           expected == Flatten([k \in 1..Len(selected) |->
                                   Encode(Strip(lines[selected[k]]) \o <<NL>>)])
       IN /\ sm_out.exists
          /\ sm_out.data = sm_out0.data \o expected
          /\ sm_ret = Some(Len(selected) = Len(indices))

====
